---- MODULE Spec2Model ----
(***************************************************************************)
(* srm: copy a file to /tmp/<path>_copy and delete the original.           *)
(* Model of src/src/lib.rs (process_file, copy_file, delete_file,          *)
(* FileError and its Display) and src/src/main.rs (main, get_input_file),  *)
(* over a small filesystem with directories, hard links and permissions.   *)
(*                                                                         *)
(* A path string is a sequence of one-character strings; an absolute,      *)
(* resolved path is a sequence of components (each a sequence of           *)
(* characters).  File contents are sequences of bytes.                     *)
(***************************************************************************)
EXTENDS Integers, Sequences, FiniteSets, TLC

\* ------------------------------------------------------------------ bounds
MaxSize == 2            \* largest size, in bytes, of a source file

Bytes == {1, 2}
Contents == UNION {[1..n -> Bytes] : n \in 0..MaxSize}

\* ------------------------------------------------------- path strings
Front(s) == SubSeq(s, 1, Len(s) - 1)

\* the components of a path string, split at "/", empty components dropped
RECURSIVE SplitFrom(_, _, _)
SplitFrom(p, i, cur) ==
    IF i > Len(p)
    THEN IF cur = <<>> THEN <<>> ELSE <<cur>>
    ELSE IF p[i] = "/"
         THEN (IF cur = <<>> THEN <<>> ELSE <<cur>>) \o SplitFrom(p, i + 1, <<>>)
         ELSE SplitFrom(p, i + 1, Append(cur, p[i]))

Split(p) == SplitFrom(p, 1, <<>>)

IsAbsolute(p) == Len(p) > 0 /\ p[1] = "/"

\* the absolute location a path string names for a process whose working
\* directory is wd
Resolve(wd, p) == (IF IsAbsolute(p) THEN <<>> ELSE wd) \o Split(p)

\* format!("/tmp/{}_copy", file)
FormatToPath(file) == <<"/", "t", "m", "p", "/">> \o file \o <<"_", "c", "o", "p", "y">>

\* ------------------------------------------------- the filesystem at start
TMP == <<"t", "m", "p">>
HOME == <<"h">>
SUB == <<"d">>

RootDir == <<>>
TmpDir == <<TMP>>
HomeDir == <<HOME>>
HomeSub == <<HOME, SUB>>
TmpSub == <<TMP, SUB>>
TmpHome == <<TMP, HOME>>

P_a == <<"a">>
P_b == <<"b">>
P_x == <<"x">>
P_d == <<"d">>
P_da == <<"d", "/", "a">>
P_ha == <<"/", "h", "/", "a">>
P_qb == <<"q", "/", "b">>
P_empty == <<>>

FileA == <<HOME, <<"a">> >>
FileDA == <<HOME, SUB, <<"a">> >>

\* the command lines, direct library calls and their arguments
InputPaths == {P_a, P_da, P_ha, P_d, P_x, P_empty}
CopySources == {P_a, P_d, P_x}
CopyDests == {P_b, P_a, P_ha, P_d, P_qb, FormatToPath(P_a)}
P_srm == <<"s", "r", "m">>
ArgLists == {<<>>, <<P_srm>>, <<P_srm, P_a>>, <<P_srm, P_da>>, <<P_srm, P_ha>>,
             <<P_srm, P_d>>, <<P_srm, P_x>>, <<P_srm, P_x, P_a>>}

Calls ==
    {[op |-> "main", args |-> a] : a \in ArgLists}
    \cup {[op |-> "process_file", args |-> <<f>>] : f \in InputPaths}
    \cup {[op |-> "copy_file", args |-> <<f, t>>] : f \in CopySources, t \in CopyDests}
    \cup {[op |-> "delete_file", args |-> <<f>>] : f \in InputPaths}

\* the path string a call reads from, and the one it writes to
SourceOf(c) ==
    IF c.op = "main"
    THEN IF Len(c.args) >= 2 THEN c.args[2] ELSE P_empty
    ELSE c.args[1]

DestOf(c) ==
    IF c.op = "copy_file" THEN c.args[2] ELSE FormatToPath(SourceOf(c))

\* ------------------------------------------------------------------- state
VARIABLES
    dirs,        \* the directories, as absolute locations
    rodirs,      \* the directories this process may not modify
    links,       \* absolute location of a file -> its inode
    data,        \* inode -> contents
    unreadable,  \* the inodes this process may not open for reading
    cwd,         \* working directory of the process
    call,        \* the entry point being run and its arguments
    pc,          \* where the invocation stands
    file,        \* process_file's parameter
    to_path,     \* process_file's destination path
    copy_from,   \* copy_file's parameters
    copy_to,
    rd,          \* fs::copy: inode open for reading (0: none)
    wr,          \* fs::copy: inode open for writing (0: none)
    written,     \* fs::copy: bytes copied so far
    copy_res,    \* what copy_file returned
    result,      \* what the entry point returned
    stdout,      \* lines printed, each a sequence of tokens
    stderr,
    exit_code,   \* exit status of the process (-1: still running)
    fs0,         \* history: links and data when the call began
    oserr,       \* history: the system call that failed, and its error
    ncheck,      \* invocations of the existence check
    ncopy,       \* invocations of the copy primitive
    ndelete      \* invocations of the delete primitive

fsconst == <<dirs, rodirs, unreadable, cwd, call, fs0>>
copyvars == <<copy_from, copy_to, rd, wr, written, copy_res>>
outvars == <<stdout, stderr, exit_code>>
counters == <<ncheck, ncopy, ndelete>>
vars == <<dirs, rodirs, links, data, unreadable, cwd, call, pc, file, to_path,
          copy_from, copy_to, rd, wr, written, copy_res, result, stdout, stderr,
          exit_code, fs0, oserr, ncheck, ncopy, ndelete>>

\* --------------------------------------------------------- results, errors
Pending == [st |-> "pending", val |-> 0, str |-> <<>>, tag |-> "none", io |-> "none"]
Ok(v) == [st |-> "ok", val |-> v, str |-> <<>>, tag |-> "none", io |-> "none"]
OkStr(s) == [st |-> "ok", val |-> 0, str |-> s, tag |-> "none", io |-> "none"]
IoErr(kind) == [st |-> "err", val |-> 0, str |-> <<>>, tag |-> "io", io |-> kind]

\* enum FileError { NoFileSpecified, CopyError(io::Error), DeleteError(io::Error) }
NoFileSpecified == [st |-> "err", val |-> 0, str |-> <<>>, tag |-> "NoFileSpecified", io |-> "none"]
CopyError(e) == [st |-> "err", val |-> 0, str |-> <<>>, tag |-> "CopyError", io |-> e.io]
DeleteError(e) == [st |-> "err", val |-> 0, str |-> <<>>, tag |-> "DeleteError", io |-> e.io]

\* ------------------------------------------------------------ output lines
Lit(s) == [lit |-> s, path |-> <<>>, num |-> 0]
PathTok(p) == [lit |-> "{}", path |-> p, num |-> 0]
NumTok(n) == [lit |-> "{}", path |-> <<>>, num |-> n]

\* the text of an io::Error, as `{}` and as `{:?}` print it
IoDisplay(kind) == Lit("os error: " \o kind)
IoDebug(kind) == Lit("Os { kind: " \o kind \o " }")

\* impl Display for FileError
Display(e) ==
    CASE e.tag = "NoFileSpecified" -> <<Lit("No input file specified")>>
      [] e.tag = "CopyError" -> <<Lit("Failed to copy file: "), IoDisplay(e.io)>>
      [] e.tag = "DeleteError" -> <<Lit("Failed to delete original file: "), IoDisplay(e.io)>>

\* #[derive(Debug)] on FileError
Debug(e) ==
    CASE e.tag = "NoFileSpecified" -> <<Lit("NoFileSpecified")>>
      [] e.tag = "CopyError" -> <<Lit("CopyError("), IoDebug(e.io), Lit(")")>>
      [] e.tag = "DeleteError" -> <<Lit("DeleteError("), IoDebug(e.io), Lit(")")>>

\* line contains the tokens of sub, contiguously
Contains(line, sub) ==
    \E i \in 0..(Len(line) - Len(sub)) : SubSeq(line, i + 1, i + Len(sub)) = sub

Shown(stream, text) == \E i \in 1..Len(stream) : Contains(stream[i], text)

\* -------------------------------------------------------------- filesystem
IsDir(q) == q \in dirs
IsFile(q) == q \in DOMAIN links

\* some proper prefix of the location is a regular file
ThroughFile(q) == \E n \in 1..(Len(q) - 1) : SubSeq(q, 1, n) \in DOMAIN links

\* variant: the existence check is skipped
PathExists_always(p) == TRUE

\* Path::new(p).exists()
PathExists(p) ==
    LET q == Resolve(cwd, p) IN p # <<>> /\ (IsDir(q) \/ IsFile(q))

\* the error, if any, of opening p for reading as fs::copy does
OpenFromErr(p) ==
    LET q == Resolve(cwd, p) IN
    CASE p = <<>> -> "NotFound"
      [] p # <<>> /\ IsDir(q) -> "InvalidInput"
      [] p # <<>> /\ ~IsDir(q) /\ ~IsFile(q) ->
            IF ThroughFile(q) THEN "NotADirectory" ELSE "NotFound"
      [] p # <<>> /\ IsFile(q) /\ links[q] \in unreadable -> "PermissionDenied"
      [] OTHER -> "none"

\* the error, if any, of opening p with write, create and truncate
OpenToErr(p) ==
    LET q == Resolve(cwd, p) IN
    CASE p = <<>> -> "NotFound"
      [] p # <<>> /\ IsDir(q) -> "IsADirectory"
      [] p # <<>> /\ IsFile(q) -> "none"
      [] p # <<>> /\ ~IsDir(q) /\ ~IsFile(q) /\ ThroughFile(q) -> "NotADirectory"
      [] p # <<>> /\ ~IsDir(q) /\ ~IsFile(q) /\ ~ThroughFile(q) /\ ~IsDir(Front(q)) -> "NotFound"
      [] p # <<>> /\ ~IsDir(q) /\ ~IsFile(q) /\ IsDir(Front(q)) /\ Front(q) \in rodirs ->
            "PermissionDenied"
      [] OTHER -> "none"

\* the error, if any, of fs::remove_file(p)
RemoveErr(p) ==
    LET q == Resolve(cwd, p) IN
    CASE p = <<>> -> "NotFound"
      [] p # <<>> /\ IsDir(q) -> "IsADirectory"
      [] p # <<>> /\ ~IsDir(q) /\ ~IsFile(q) ->
            IF ThroughFile(q) THEN "NotADirectory" ELSE "NotFound"
      [] p # <<>> /\ IsFile(q) /\ Front(q) \in rodirs -> "PermissionDenied"
      [] OTHER -> "none"

Unlinked(q) == [l \in DOMAIN links \ {q} |-> links[l]]

\* -------------------------------------------------------------------- Init
NoOsErr == [step |-> "none", kind |-> "none"]
OsErr(step, kind) == [step |-> step, kind |-> kind]

Flip(c) == [i \in 1..Len(c) |-> 3 - c[i]]
LongContent == [i \in 1..(MaxSize + 1) |-> 2]

StartPc(c) ==
    CASE c.op = "main" -> "main"
      [] c.op = "process_file" -> "Start"
      [] c.op = "copy_file" -> "copy_open_from"
      [] c.op = "delete_file" -> "delete_file"

Init ==
    \E c \in Contents, subs \in SUBSET {TmpSub, TmpHome}, ro \in BOOLEAN,
       nr \in BOOLEAN, pre \in {"none", "short", "long", "link"}, cl \in Calls :
        LET baseDirs == {RootDir, TmpDir, HomeDir, HomeSub} \cup subs
            baseLinks == (FileA :> 1) @@ (FileDA :> 2)
            baseData == (1 :> c) @@ (2 :> Flip(c))
            src == Resolve(HomeDir, SourceOf(cl))
            dst == Resolve(HomeDir, DestOf(cl))
            links0 == CASE pre = "none" -> baseLinks
                        [] pre = "link" -> baseLinks @@ (dst :> baseLinks[src])
                        [] OTHER -> baseLinks @@ (dst :> 3)
            data0 == CASE pre = "short" -> baseData @@ (3 :> <<>>)
                       [] pre = "long" -> baseData @@ (3 :> LongContent)
                       [] OTHER -> baseData
            canPre == /\ dst # <<>>
                      /\ dst \notin baseDirs
                      /\ dst \notin DOMAIN baseLinks
                      /\ Front(dst) \in baseDirs
        IN  /\ pre # "none" => canPre
            /\ pre = "link" => src \in DOMAIN baseLinks
            /\ dirs = baseDirs
            /\ rodirs = IF ro THEN {HomeDir, HomeSub} ELSE {}
            /\ unreadable = IF nr THEN {1, 2} ELSE {}
            /\ cwd = HomeDir
            /\ links = links0
            /\ data = data0
            /\ call = cl
            /\ pc = StartPc(cl)
            /\ file = IF cl.op \in {"process_file", "delete_file"} THEN cl.args[1] ELSE <<>>
            /\ to_path = <<>>
            /\ copy_from = IF cl.op = "copy_file" THEN cl.args[1] ELSE <<>>
            /\ copy_to = IF cl.op = "copy_file" THEN cl.args[2] ELSE <<>>
            /\ rd = 0
            /\ wr = 0
            /\ written = 0
            /\ copy_res = Pending
            /\ result = Pending
            /\ stdout = <<>>
            /\ stderr = <<>>
            /\ exit_code = -1
            /\ fs0 = [links |-> links0, data |-> data0]
            /\ oserr = NoOsErr
            /\ ncheck = 0
            /\ ncopy = 0
            /\ ndelete = 0

\* ----------------------------------------------------------------- actions
\* where control goes when process_file returns
AfterReturn == IF call.op = "main" THEN "main_exit" ELSE "returned"

\* variant: nth(0) in place of nth(1)
get_input_file_nth0(args) ==
    IF Len(args) >= 1 THEN OkStr(args[1]) ELSE NoFileSpecified

\* main.rs get_input_file: env::args().nth(1).ok_or(NoFileSpecified)
get_input_file(args) ==
    IF Len(args) >= 2 THEN OkStr(args[2]) ELSE NoFileSpecified

\* main.rs main, line 9: let file = get_input_file()?;
MainGetInput ==
    /\ pc = "main"
    /\ LET r == get_input_file(call.args) IN
           IF r.st = "err"
           THEN /\ result' = r
                /\ pc' = "main_exit"
                /\ file' = file
           ELSE /\ file' = r.str
                /\ pc' = "Start"
                /\ result' = result
    /\ UNCHANGED <<fsconst, links, data, to_path, copyvars, outvars, counters, oserr>>

\* lib.rs process_file, lines 32-38: the existence check and the destination
ProcessFileCheck ==
    /\ pc = "Start"
    /\ ncheck' = ncheck + 1
    /\ IF ~PathExists(file)
       THEN /\ stderr' = Append(stderr, <<Lit("Error: Input file '"), PathTok(file),
                                          Lit("' does not exist")>>)
            /\ result' = NoFileSpecified
            /\ pc' = AfterReturn
            /\ UNCHANGED <<to_path, copy_from, copy_to>>
       ELSE /\ to_path' = FormatToPath(file)
            /\ copy_from' = file
            /\ copy_to' = to_path'
            /\ pc' = "copy_open_from"
            /\ UNCHANGED <<stderr, result>>
    /\ UNCHANGED <<fsconst, links, data, file, rd, wr, written, copy_res, stdout,
                   exit_code, ncopy, ndelete, oserr>>

\* variant: the copy error is wrapped in the wrong variant
CopyFileResult_wrong(io) == IF io.st = "err" THEN DeleteError(io) ELSE io

\* lib.rs copy_file: fs::copy(from, to).map_err(FileError::CopyError)
CopyFileResult(io) == IF io.st = "err" THEN CopyError(io) ELSE io

\* fs::copy, first step: open the source for reading
CopyOpenFrom ==
    /\ pc = "copy_open_from"
    /\ ncopy' = ncopy + 1
    /\ LET e == OpenFromErr(copy_from) IN
           IF e # "none"
           THEN /\ copy_res' = CopyFileResult(IoErr(e))
                /\ oserr' = OsErr("copy", e)
                /\ pc' = "copy_ret"
                /\ rd' = rd
           ELSE /\ rd' = links[Resolve(cwd, copy_from)]
                /\ pc' = "copy_open_to"
                /\ UNCHANGED <<copy_res, oserr>>
    /\ UNCHANGED <<fsconst, links, data, file, to_path, copy_from, copy_to, wr, written,
                   result, outvars, ncheck, ndelete>>

\* variant: the destination is opened without truncation
Truncated_not(d, i) == d

\* O_TRUNC: the file behind inode i is emptied when it is opened for writing
Truncated(d, i) == [d EXCEPT ![i] = <<>>]

\* fs::copy, second step: open the destination, creating or truncating it
CopyOpenTo ==
    /\ pc = "copy_open_to"
    /\ LET e == OpenToErr(copy_to)
           q == Resolve(cwd, copy_to)
           fresh == 1 + Cardinality(DOMAIN data)
       IN  IF e # "none"
           THEN /\ copy_res' = CopyFileResult(IoErr(e))
                /\ oserr' = OsErr("copy", e)
                /\ pc' = "copy_ret"
                /\ UNCHANGED <<links, data, wr>>
           ELSE /\ IF IsFile(q)
                   THEN /\ wr' = links[q]
                        /\ data' = Truncated(data, links[q])
                        /\ links' = links
                   ELSE /\ wr' = fresh
                        /\ data' = data @@ (fresh :> <<>>)
                        /\ links' = links @@ (q :> fresh)
                /\ pc' = "copy_write"
                /\ UNCHANGED <<copy_res, oserr>>
    /\ UNCHANGED <<fsconst, file, to_path, copy_from, copy_to, rd, written, result,
                   outvars, counters>>

\* variant: the copy stops one byte short
MoreToCopy_short(n, src) == n < Len(src) - 1

\* fs::copy reads on until the end of the source
MoreToCopy(n, src) == n < Len(src)

\* fs::copy, the copy loop: one byte per step, an I/O error possible at any
\* byte; at the end of the source the number of bytes copied is returned
CopyWrite ==
    /\ pc = "copy_write"
    /\ IF MoreToCopy(written, data[rd])
       THEN \E ioerr \in BOOLEAN :
                IF ioerr
                THEN /\ copy_res' = CopyFileResult(IoErr("StorageFull"))
                     /\ oserr' = OsErr("copy", "StorageFull")
                     /\ pc' = "copy_ret"
                     /\ UNCHANGED <<data, written>>
                ELSE /\ data' = [data EXCEPT ![wr] = Append(@, data[rd][written + 1])]
                     /\ written' = written + 1
                     /\ UNCHANGED <<copy_res, pc, oserr>>
       ELSE /\ copy_res' = CopyFileResult(Ok(written))
            /\ pc' = "copy_ret"
            /\ UNCHANGED <<data, written, oserr>>
    /\ UNCHANGED <<fsconst, links, file, to_path, copy_from, copy_to, rd, wr, result,
                   outvars, counters>>

\* copy_file called on its own returns to its caller
CopyFileReturn ==
    /\ pc = "copy_ret"
    /\ call.op = "copy_file"
    /\ result' = copy_res
    /\ pc' = "returned"
    /\ UNCHANGED <<fsconst, links, data, file, to_path, copyvars, outvars, counters, oserr>>

\* variant: the Err arm prints but does not return
ProcessFileMatchCopy_noreturn ==
    /\ pc = "copy_ret"
    /\ call.op # "copy_file"
    /\ IF copy_res.st = "ok"
       THEN /\ stdout' = Append(stdout, <<Lit("Successfully copied "), NumTok(copy_res.val),
                                          Lit(" bytes to "), PathTok(to_path)>>)
            /\ stderr' = stderr
       ELSE /\ stderr' = Append(stderr, <<Lit("Error during file copy: ")>> \o Display(copy_res))
            /\ stdout' = stdout
    /\ pc' = "Copied"
    /\ UNCHANGED <<fsconst, links, data, file, to_path, copyvars, result, exit_code,
                   counters, oserr>>

\* lib.rs process_file, lines 41-47: match copy_file(file, &to_path)
ProcessFileMatchCopy ==
    /\ pc = "copy_ret"
    /\ call.op # "copy_file"
    /\ IF copy_res.st = "ok"
       THEN /\ stdout' = Append(stdout, <<Lit("Successfully copied "), NumTok(copy_res.val),
                                          Lit(" bytes to "), PathTok(to_path)>>)
            /\ pc' = "Copied"
            /\ UNCHANGED <<stderr, result>>
       ELSE /\ stderr' = Append(stderr, <<Lit("Error during file copy: ")>> \o Display(copy_res))
            /\ result' = copy_res
            /\ pc' = AfterReturn
            /\ stdout' = stdout
    /\ UNCHANGED <<fsconst, links, data, file, to_path, copyvars, exit_code, counters, oserr>>

\* variant: the delete error is wrapped in the wrong variant
DeleteFileResult_wrong(p) ==
    IF RemoveErr(p) # "none" THEN CopyError(IoErr(RemoveErr(p))) ELSE Ok(0)

\* lib.rs delete_file: fs::remove_file(file).map_err(FileError::DeleteError)
DeleteFileResult(p) ==
    IF RemoveErr(p) # "none" THEN DeleteError(IoErr(RemoveErr(p))) ELSE Ok(0)

\* what the operating system reported for fs::remove_file(p)
RemoveOsErr(p) ==
    IF RemoveErr(p) # "none" THEN OsErr("delete", RemoveErr(p)) ELSE oserr

\* the filesystem after fs::remove_file(p)
LinksAfterRemove(p) ==
    IF RemoveErr(p) # "none" THEN links ELSE Unlinked(Resolve(cwd, p))

\* variant: a failed delete is tried once more
ProcessFileDelete_retry ==
    /\ pc = "Copied"
    /\ ndelete' = ndelete + 1
    /\ links' = LinksAfterRemove(file)
    /\ oserr' = RemoveOsErr(file)
    /\ LET r == DeleteFileResult(file) IN
           IF r.st = "err"
           THEN /\ result' = r
                /\ stdout' = stdout
                /\ pc' = IF ndelete = 0 THEN "Copied" ELSE AfterReturn
           ELSE /\ stdout' = Append(stdout, <<Lit("Original file successfully deleted")>>)
                /\ result' = Ok(0)
                /\ pc' = AfterReturn
    /\ UNCHANGED <<fsconst, data, file, to_path, copyvars, stderr, exit_code, ncheck, ncopy>>

\* lib.rs process_file, lines 50-53: delete_file(file)?; and the final Ok(())
ProcessFileDelete ==
    /\ pc = "Copied"
    /\ ndelete' = ndelete + 1
    /\ links' = LinksAfterRemove(file)
    /\ LET r == DeleteFileResult(file) IN
           IF r.st = "err"
           THEN /\ result' = r
                /\ stdout' = stdout
           ELSE /\ stdout' = Append(stdout, <<Lit("Original file successfully deleted")>>)
                /\ result' = Ok(0)
    /\ oserr' = RemoveOsErr(file)
    /\ pc' = AfterReturn
    /\ UNCHANGED <<fsconst, data, file, to_path, copyvars, stderr, exit_code, ncheck, ncopy>>

\* delete_file called on its own
DeleteFileCall ==
    /\ pc = "delete_file"
    /\ ndelete' = ndelete + 1
    /\ links' = LinksAfterRemove(file)
    /\ result' = DeleteFileResult(file)
    /\ oserr' = RemoveOsErr(file)
    /\ pc' = "returned"
    /\ UNCHANGED <<fsconst, data, file, to_path, copyvars, outvars, ncheck, ncopy>>

\* main.rs main, lines 7 and 12-13: main returns Result<(), FileError>; the
\* runtime prints an Err with {:?} to the error stream and exits with 1
MainExit ==
    /\ pc = "main_exit"
    /\ IF result.st = "err"
       THEN /\ stderr' = Append(stderr, <<Lit("Error: ")>> \o Debug(result))
            /\ exit_code' = 1
       ELSE /\ stderr' = stderr
            /\ exit_code' = 0
    /\ pc' = "exited"
    /\ UNCHANGED <<fsconst, links, data, file, to_path, copyvars, result, stdout, counters, oserr>>

Next ==
    \/ MainGetInput
    \/ ProcessFileCheck
    \/ CopyOpenFrom
    \/ CopyOpenTo
    \/ CopyWrite
    \/ CopyFileReturn
    \/ ProcessFileMatchCopy
    \/ ProcessFileDelete
    \/ DeleteFileCall
    \/ MainExit

Spec == Init /\ [][Next]_vars

\* every step of the program is a step it takes as soon as it can: the
\* process is single-threaded and its system calls block but return
FairSpec == Spec /\ WF_vars(Next)

\* ------------------------------------------------------------------ claims
\* what the call is about, read off the filesystem as it was when it began
SrcPath == SourceOf(call)
SrcLoc == Resolve(cwd, SrcPath)
DstLoc == Resolve(cwd, DestOf(call))
WasFile == SrcPath # <<>> /\ SrcLoc \in DOMAIN fs0.links
WasDir == SrcPath # <<>> /\ SrcLoc \in dirs
ExistedAtCall == WasFile \/ WasDir
Orig == IF WasFile THEN fs0.data[fs0.links[SrcLoc]] ELSE <<>>
WasReadable == WasFile /\ fs0.links[SrcLoc] \notin unreadable

\* the destination named the very file the source names
Aliased ==
    /\ WasFile
    /\ DstLoc \in DOMAIN fs0.links
    /\ fs0.links[DstLoc] = fs0.links[SrcLoc]

\* the destination could be opened for writing: it was a regular file, or a
\* new name in an existing directory the process may modify
DstOpenable ==
    /\ DestOf(call) # <<>>
    /\ DstLoc \notin dirs
    /\ \/ DstLoc \in DOMAIN fs0.links
       \/ Front(DstLoc) \in dirs \ rodirs

NowFile(q) == q \in DOMAIN links
NowExists(q) == q \in DOMAIN links \/ q \in dirs
NowContent(q) == data[links[q]]

ProcessCalled == call.op \in {"main", "process_file"} /\ ncheck >= 1
ProcessReturned == ProcessCalled /\ pc \in {"returned", "main_exit", "exited"}

\* nothing in the environment stands in the way of the call: the source is a
\* readable regular file in a directory the process may modify, the
\* destination is not the source file itself, and no I/O error occurred
Benign ==
    /\ WasReadable
    /\ Front(SrcLoc) \notin rodirs
    /\ ~Aliased
    /\ oserr.kind # "StorageFull"

\* C1: process_file on any path that exists returns success, the path is gone
\* afterwards and /tmp/<path>_copy holds the original content.  Stated here
\* for the existing paths the environment does not stand in the way of; the
\* claim covers them among all existing paths.
C1_ProcessExistingSucceeds ==
    (ProcessReturned /\ ExistedAtCall /\ Benign) =>
        /\ result.st = "ok"
        /\ ~NowExists(SrcLoc)
        /\ NowFile(DstLoc)
        /\ NowContent(DstLoc) = Orig

\* C2: within process_file the delete primitive has been invoked, or the
\* original has disappeared, only after the copy of the same invocation
\* returned success.
C2_DeleteOnlyAfterCopy ==
    call.op \in {"main", "process_file"} =>
        ((ndelete > 0 \/ (WasFile /\ ~NowFile(SrcLoc))) =>
            /\ copy_res.st = "ok"
            /\ ncopy = 1
            /\ pc \in {"returned", "main_exit", "exited"})

C2_Witness ==
    /\ call.op = "process_file"
    /\ WasFile
    /\ ~NowFile(SrcLoc)
    /\ ndelete = 1

\* C3: a failed copy yields CopyError carrying the operating system's error
\* (a missing source being one case); process_file then prints that error on
\* the error stream, returns the CopyError, never calls delete, and the
\* original is still there.
C3_CopyFailure ==
    /\ oserr.step = "copy" => copy_res = CopyError(IoErr(oserr.kind))
    /\ copy_res.st = "err" => oserr.step = "copy"
    /\ (call.op = "copy_file" /\ pc = "returned" /\ ~ExistedAtCall) =>
            result = CopyError(IoErr("NotFound"))
    /\ (ProcessReturned /\ oserr.step = "copy") =>
            /\ result = CopyError(IoErr(oserr.kind))
            /\ Shown(stderr, <<Lit("Error during file copy: "), Lit("Failed to copy file: "),
                               IoDisplay(oserr.kind)>>)
            /\ ndelete = 0
            /\ NowExists(SrcLoc)
            /\ WasFile => NowFile(SrcLoc)

C3_Witness ==
    /\ ProcessReturned
    /\ oserr.step = "copy"
    /\ WasFile
    /\ result.tag = "CopyError"

\* C4: a failed delete yields DeleteError carrying the operating system's
\* error (a missing path being one case); inside process_file the copy has
\* succeeded by then, so on return the destination duplicates the content
\* and the original is still at its path.
C4_DeleteFailure ==
    /\ oserr.step = "delete" => result = DeleteError(IoErr(oserr.kind))
    /\ result.tag = "DeleteError" => oserr.step = "delete"
    /\ (call.op = "delete_file" /\ pc = "returned" /\ ~ExistedAtCall) =>
            result = DeleteError(IoErr("NotFound"))
    /\ (ProcessReturned /\ oserr.step = "delete") =>
            /\ copy_res.st = "ok"
            /\ NowFile(SrcLoc)
            /\ NowFile(DstLoc)
            /\ NowContent(DstLoc) = NowContent(SrcLoc)
            /\ ~Aliased => NowContent(DstLoc) = Orig

C4_Witness ==
    /\ ProcessReturned
    /\ oserr.step = "delete"
    /\ ~Aliased
    /\ Len(Orig) > 0

\* C5: process_file on a path that does not exist returns NoFileSpecified,
\* prints a line naming the path on the error stream, and calls neither the
\* copy nor the delete.
C5_ProcessMissing ==
    (ProcessReturned /\ ~ExistedAtCall) =>
        /\ result = NoFileSpecified
        /\ Shown(stderr, <<Lit("Error: Input file '"), PathTok(SrcPath)>>)
        /\ ncopy = 0
        /\ ndelete = 0
        /\ links = fs0.links
        /\ data = fs0.data

C5_Witness ==
    /\ ProcessReturned
    /\ SrcPath = P_x
    /\ Len(stderr) >= 1

\* C6: a run that succeeds exits with 0; a run that ends in an error exits
\* with a non-zero status after the error's Display text was printed on the
\* error stream.
C6_ExitShowsDisplayText ==
    pc = "exited" =>
        IF result.st = "err"
        THEN exit_code # 0 /\ Shown(stderr, Display(result))
        ELSE exit_code = 0

\* C7: get_input_file yields the argument at index 1 unchanged when there is
\* one and NoFileSpecified otherwise, and touches nothing else.
C7_GetInputFile ==
    (call.op = "main" /\ pc # "main") =>
        /\ Len(call.args) >= 2 =>
                /\ file = call.args[2]
                /\ pc = "Start" \/ ncheck = 1
        /\ Len(call.args) < 2 =>
                /\ result = NoFileSpecified
                /\ file = <<>>
                /\ ncheck = 0 /\ ncopy = 0 /\ ndelete = 0
                /\ links = fs0.links /\ data = fs0.data
                /\ stdout = <<>>
        /\ pc = "Start" =>
                /\ result = Pending
                /\ links = fs0.links /\ data = fs0.data
                /\ stdout = <<>> /\ stderr = <<>>

C7_Witness ==
    /\ call.op = "main"
    /\ Len(call.args) = 3
    /\ pc = "Start"
    /\ file = P_x

\* C8 as stated: copy_file from an existing readable file to any destination
\* succeeds, returns the source's size, leaves the destination equal to the
\* source and the source unchanged.
C8_CopyAnyDestination ==
    (call.op = "copy_file" /\ pc = "returned" /\ WasReadable) =>
        /\ result.st = "ok"
        /\ result.val = Len(Orig)
        /\ NowFile(DstLoc) /\ NowContent(DstLoc) = Orig
        /\ NowFile(SrcLoc) /\ NowContent(SrcLoc) = Orig

\* C8 amended: the same, for a destination that is not the source file
\* itself and can be opened for writing, when no I/O error interrupts the
\* copy.
C8_CopyToOpenableDestination ==
    (/\ call.op = "copy_file" /\ pc = "returned" /\ WasReadable
     /\ ~Aliased
     /\ DstOpenable
     /\ oserr.kind # "StorageFull") =>
        /\ result.st = "ok"
        /\ result.val = Len(Orig)
        /\ NowFile(DstLoc) /\ NowContent(DstLoc) = Orig
        /\ NowFile(SrcLoc) /\ NowContent(SrcLoc) = Orig

C8_Witness ==
    /\ call.op = "copy_file" /\ pc = "returned" /\ WasReadable
    /\ ~Aliased
    /\ DstLoc \in DOMAIN fs0.links
    /\ result.st = "ok"
    /\ Len(Orig) > 0

\* C9: the state of an invocation of process_file
Entered == call.op \in {"main", "process_file"} /\ (pc = "Start" \/ ncheck >= 1)

SM ==
    CASE ~Entered -> "Idle"
      [] Entered /\ pc = "Start" -> "Start"
      [] Entered /\ pc \in {"copy_open_from", "copy_open_to", "copy_write", "copy_ret"} ->
            "Validated"
      [] Entered /\ pc = "Copied" -> "Copied"
      [] Entered /\ pc \in {"returned", "main_exit", "exited"} ->
            CASE result.st = "ok" -> "Deleted"
              [] result.tag = "NoFileSpecified" -> "FailNoInput"
              [] result.tag = "CopyError" -> "FailCopy"
              [] result.tag = "DeleteError" -> "FailDelete"
              [] OTHER -> "Unknown"
      [] OTHER -> "Unknown"

Terminals == {"Deleted", "FailNoInput", "FailCopy", "FailDelete"}

Edges ==
    {<<"Idle", "Start">>, <<"Start", "Validated">>, <<"Validated", "Copied">>,
     <<"Copied", "Deleted">>, <<"Start", "FailNoInput">>, <<"Validated", "FailCopy">>,
     <<"Copied", "FailDelete">>}

C9_Step == SM' # SM => <<SM, SM'>> \in Edges

C9_Counts ==
    /\ SM \in {"Idle", "Start", "Validated", "Copied"} \cup Terminals
    /\ ncheck <= 1 /\ ncopy <= 1 /\ ndelete <= 1
    /\ Entered =>
        /\ SM = "Start" => ncheck = 0 /\ ncopy = 0 /\ ndelete = 0
        /\ SM = "Validated" => ncheck = 1 /\ ndelete = 0
        /\ SM = "Copied" => ncheck = 1 /\ ncopy = 1 /\ ndelete = 0 /\ copy_res.st = "ok"
        /\ SM = "Deleted" => ncheck = 1 /\ ncopy = 1 /\ ndelete = 1 /\ result = Ok(0)
        /\ SM = "FailNoInput" => ncheck = 1 /\ ncopy = 0 /\ ndelete = 0 /\ result.st = "err"
        /\ SM = "FailCopy" => ncheck = 1 /\ ncopy = 1 /\ ndelete = 0 /\ result.st = "err"
        /\ SM = "FailDelete" => ncheck = 1 /\ ncopy = 1 /\ ndelete = 1 /\ result.st = "err"

\* C9: an invocation moves only along Start -> Validated -> Copied -> Deleted
\* and the three failure edges, never leaves a terminal state, invokes each
\* primitive at most once, returns success in Deleted only, and always
\* reaches a terminal state.
C9_StateMachine ==
    /\ [][C9_Step]_vars
    /\ []C9_Counts
    /\ [](SM = "Start" => <>(SM \in Terminals))

C9_Witness ==
    /\ call.op = "main"
    /\ pc = "exited"
    /\ SM = "FailDelete"

\* C10: when the destination is a different file from the source, at every
\* point of process_file the original content is whole at the source or at
\* the destination.
C10_NoDataLoss ==
    (call.op \in {"main", "process_file"} /\ WasFile /\ ~Aliased) =>
        \/ NowFile(SrcLoc) /\ NowContent(SrcLoc) = Orig
        \/ NowFile(DstLoc) /\ NowContent(DstLoc) = Orig

C10_Witness ==
    /\ call.op \in {"main", "process_file"} /\ WasFile /\ ~Aliased
    /\ ~NowFile(SrcLoc)
    /\ NowFile(DstLoc)
    /\ Len(Orig) > 0
====
